---------------------------- MODULE Spec2Model ----------------------------
(***************************************************************************)
(* A model of smartroll-backend/routes/attendance_routes.py: the subnet    *)
(* check, the eligibility helper is_student_checked_in and the request     *)
(* handlers check_in, router_push, check_status and session_logs.          *)
(*                                                                         *)
(* Time is counted in ticks, TicksPerMinute to the minute, so that the     *)
(* fractional minutes of (now - timestamp).total_seconds() / 60 and the    *)
(* truncation of int() exist in the model.  Strings are sequences of       *)
(* one-character strings.  An optional value (Python None or a value) is   *)
(* the empty sequence or a one-element sequence.                           *)
(***************************************************************************)
EXTENDS Integers, Sequences, FiniteSets, TLC

\* ------------------------------------------------------------------ bounds
TicksPerMinute == 2
MaxTime == 3
MaxLogs == 2
MaxDevices == 2
ConcMaxTime == 1

\* ---------------------------------------------------------------- optionals
None == <<>>
Some(x) == <<x>>
IsSome(o) == o # <<>>
Get(o) == o[1]

\* Python truthiness of an optional string / optional integer.
TruthyStr(o) == IsSome(o) /\ Get(o) # <<>>
TruthyInt(o) == IsSome(o) /\ Get(o) # 0

\* Faulty variant: the second operand wins when it is truthy.
PyOrMut(a, b) == IF TruthyStr(b) THEN b ELSE a

\* `a or b` on optional strings.
PyOr(a, b) == IF TruthyStr(a) THEN a ELSE b

\* ------------------------------------------------------------------ strings
UpperChar(c) ==
    CASE c = "a" -> "A"
      [] c = "b" -> "B"
      [] c = "c" -> "C"
      [] OTHER -> c

\* str.upper()
upper(s) == [i \in DOMAIN s |-> UpperChar(s[i])]

IsSpace(c) == c = " "

RECURSIVE lstrip(_)
lstrip(s) == IF s # <<>> /\ IsSpace(Head(s)) THEN lstrip(Tail(s)) ELSE s

RECURSIVE rstrip(_)
rstrip(s) ==
    IF s # <<>> /\ IsSpace(s[Len(s)]) THEN rstrip(SubSeq(s, 1, Len(s) - 1)) ELSE s

\* str.strip()
strip(s) == rstrip(lstrip(s))

\* str.startswith(prefix)
startswith(s, prefix) ==
    /\ Len(prefix) <= Len(s)
    /\ SubSeq(s, 1, Len(prefix)) = prefix

\* datetime.isoformat(): the timestamp in its text form.
isoformat(t) == [iso |-> t]

\* int(): truncation toward zero of the quotient a / b, b > 0.
int_div(a, b) == IF a >= 0 THEN a \div b ELSE -((-a) \div b)

\* ------------------------------------------------------------------- tables
\* Student rows (created outside this module's code; addresses are stored
\* uppercase and identify at most one student).
Students ==
    { [id |-> 1, name |-> "Ann", mac_address |-> <<"A", "1">>],
      [id |-> 2, name |-> "Bob", mac_address |-> <<"B", "2">>] }

\* ApprovedSubnet rows: one stored clean, one stored with surrounding blanks.
ApprovedSubnets ==
    { [prefix |-> <<"1", "0", ".">>],
      [prefix |-> <<" ", "7", ".", " ">>] }

Procs == {1, 2}

VARIABLES
    clock,      \* the UTC clock datetime.utcnow() reads, in ticks
    sessions,   \* the Session table: session id -> row
    subnets,    \* the ApprovedSubnet table
    logs,       \* the AttendanceLog table, in the order the rows were committed
    pc,         \* where each request handler is
    frame,      \* each handler's local variables
    resp,       \* what each handler returned last
    appended    \* the rows each handler's current call has committed

vars == <<clock, sessions, subnets, logs, pc, frame, resp, appended>>

\* ----------------------------------------------------- ip_in_approved_subnet
\* Faulty variant: the stored prefix is compared as it is stored.
ip_in_approved_subnet_raw(client_ip) ==
    IF ~TruthyStr(client_ip)
    THEN FALSE
    ELSE \E subnet \in subnets : startswith(Get(client_ip), subnet.prefix)

\* lines 12-23; client_ip is an optional string.
ip_in_approved_subnet(client_ip) ==
    IF ~TruthyStr(client_ip)
    THEN FALSE
    ELSE \E subnet \in subnets : startswith(Get(client_ip), strip(subnet.prefix))

\* ----------------------------------------------------- is_student_checked_in
\* Session.query.get(session_id); session_id is an optional integer.
SessionGet(session_id) ==
    IF IsSome(session_id) /\ Get(session_id) \in DOMAIN sessions
    THEN Some(sessions[Get(session_id)])
    ELSE None

\* Student.query.filter_by(mac_address=mac).first()
StudentByMac(mac) ==
    LET m == {s \in Students : s.mac_address = mac}
    IN  IF m = {} THEN None
        ELSE Some(CHOOSE s \in m : \A t \in m : s.id <= t.id)

\* Faulty variant: the start itself counts as not started.
NotStartedMut(now, s) == now <= s.start_time

\* now < session.start_time (lines 51, 146, 212)
NotStarted(now, s) == now < s.start_time

\* Faulty variant: the end itself counts as ended.
EndedMut(now, s) == IsSome(s.end_time) /\ now >= Get(s.end_time)

\* session.end_time and now > session.end_time (lines 59, 152, 218)
Ended(now, s) == IsSome(s.end_time) /\ now > Get(s.end_time)

\* The timestamps of the rows of (session_id, student_id).
LogTimes(session_id, student_id) ==
    { logs[i].timestamp : i \in
        { j \in DOMAIN logs : /\ logs[j].session_id = session_id
                              /\ logs[j].student_id = student_id } }

Max(S) == CHOOSE x \in S : \A y \in S : y <= x
Min(S) == CHOOSE x \in S : \A y \in S : x <= y

\* Faulty variant: ascending order, the oldest row first.
LastLogMut(session_id, student_id) ==
    LET ts == LogTimes(session_id, student_id)
    IN  IF ts = {} THEN None ELSE Some(Min(ts))

\* filter_by(session_id, student_id).order_by(desc(timestamp)).first():
\* the timestamp of the most recent row, if any.
LastLog(session_id, student_id) ==
    LET ts == LogTimes(session_id, student_id)
    IN  IF ts = {} THEN None ELSE Some(Max(ts))

\* The four results without a heartbeat (lines 43-48, 52-57, 60-65, 74-79).
Inactive(reason) ==
    [checked_in |-> FALSE, reason |-> reason,
     last_heartbeat |-> None, time_until_expiry |-> None]

\* Faulty variant: the boundary itself counts as expired.
WithinWindowMut(elapsed, s) ==
    elapsed < (s.heartbeat_minutes + s.grace_minutes) * TicksPerMinute

\* time_since_heartbeat <= max_allowed_interval, both in ticks (line 85).
WithinWindow(elapsed, s) ==
    elapsed <= (s.heartbeat_minutes + s.grace_minutes) * TicksPerMinute

\* Faulty variant: the elapsed time is truncated before the subtraction.
TimeUntilExpiryMut(elapsed, s) ==
    (s.heartbeat_minutes + s.grace_minutes) - int_div(elapsed, TicksPerMinute)

\* int(max_allowed_interval - time_since_heartbeat), in minutes (line 86).
TimeUntilExpiry(elapsed, s) ==
    int_div((s.heartbeat_minutes + s.grace_minutes) * TicksPerMinute - elapsed,
            TicksPerMinute)

\* lines 87-92
ActiveStatus(last, elapsed, s) ==
    [checked_in |-> TRUE, reason |-> "active",
     last_heartbeat |-> Some(isoformat(last)),
     time_until_expiry |-> Some(TimeUntilExpiry(elapsed, s))]

\* Faulty variant: an expired heartbeat still counts as checked in.
ExpiredStatusMut(last) ==
    [checked_in |-> TRUE, reason |-> "heartbeat_expired",
     last_heartbeat |-> Some(isoformat(last)), time_until_expiry |-> None]

\* lines 94-99
ExpiredStatus(last) ==
    [checked_in |-> FALSE, reason |-> "heartbeat_expired",
     last_heartbeat |-> Some(isoformat(last)), time_until_expiry |-> None]

\* lines 29-99, with `now` the clock value read at line 38.
is_student_checked_in(student_id, session_id, now) ==
    LET session == SessionGet(session_id) IN
    IF ~IsSome(session) THEN Inactive("session_not_found")
    ELSE LET s == Get(session) IN
    IF NotStarted(now, s) THEN Inactive("session_not_started")
    ELSE IF Ended(now, s) THEN Inactive("session_ended")
    ELSE LET last_log == LastLog(Get(session_id), student_id) IN
    IF ~IsSome(last_log) THEN Inactive("no_heartbeat_recorded")
    ELSE LET elapsed == now - Get(last_log) IN
    IF WithinWindow(elapsed, s)
    THEN ActiveStatus(Get(last_log), elapsed, s)
    ELSE ExpiredStatus(Get(last_log))


\* ---------------------------------------------------------------- responses
\* What a handler hands back: the HTTP status code and the fields of the JSON
\* body; fault marks an exception that left the handler unhandled (the
\* framework then answers 500 with no JSON body of the handler's).
NoResp ==
    [code |-> 0, fault |-> FALSE, error |-> "", message |-> "",
     boundary |-> None, student |-> None, student_id |-> None,
     session_id |-> None, status |-> None, count |-> None, out |-> <<>>,
     trusted |-> None]

Error(code, error) == [NoResp EXCEPT !.code = code, !.error = error]

\* The two session-window errors carry the boundary timestamp
\* (lines 147-150, 153-156, 213-216, 219-222).
NotStartedError(s) ==
    [NoResp EXCEPT !.code = 400, !.error = "Session has not started yet",
                   !.boundary = Some(isoformat(s.start_time))]
EndedError(s) ==
    [NoResp EXCEPT !.code = 400, !.error = "Session has ended",
                   !.boundary = Some(isoformat(Get(s.end_time)))]

\* An exception nobody caught.
Fault == [NoResp EXCEPT !.code = 500, !.fault = TRUE]

\* ------------------------------------------------------------------- frames
Frame0 ==
    [op |-> "none", mac |-> <<>>, session_id |-> None, client_ip |-> None,
     authorized |-> FALSE, student |-> None, now |-> None, log |-> None,
     commit_raised |-> FALSE, devices |-> <<>>, idx |-> 0, pending |-> <<>>,
     saved |-> 0, eval_student |-> None, eval_session |-> None,
     eval_now |-> None, eval_rows |-> 0]

\* Faulty variant: the row is stamped one tick ahead of the clock.
AttendanceLogLate(session_id, student_id, mac, timestamp) ==
    [session_id |-> session_id, student_id |-> student_id, mac |-> mac,
     status |-> "Heartbeat", timestamp |-> timestamp + 1]

\* AttendanceLog(session_id, student_id, mac, status="Heartbeat", timestamp)
AttendanceLog(session_id, student_id, mac, timestamp) ==
    [session_id |-> session_id, student_id |-> student_id, mac |-> mac,
     status |-> "Heartbeat", timestamp |-> timestamp]

\* Faulty variant: the pending rows replace the stored ones.
db_commit_overwrite(pending) == pending

\* Faulty variant: every pending row is written twice.
db_commit_mut(pending) == logs \o pending \o pending

\* db.session.commit() that succeeds: the pending rows become visible.
db_commit(pending) == logs \o pending

\* Faulty variant: the first pending row stays in the store.
db_commit_raises_mut(pending) ==
    IF pending = <<>> THEN logs ELSE Append(logs, Head(pending))

\* db.session.commit() that raises: the transaction never commits, and the
\* end of the request discards the session's pending rows.
db_commit_raises(pending) == logs

\* The handler has returned r with locals f.
Return(p, f, r) ==
    /\ pc' = [pc EXCEPT ![p] = "done"]
    /\ frame' = [frame EXCEPT ![p] = f]
    /\ resp' = [resp EXCEPT ![p] = r]

\* The handler goes on at `at` with locals f.
Goto(p, at, f) ==
    /\ pc' = [pc EXCEPT ![p] = at]
    /\ frame' = [frame EXCEPT ![p] = f]
    /\ resp' = [resp EXCEPT ![p] = NoResp]

\* A handler takes a request when it holds none.
Free(p) == pc[p] = "idle"

\* The rows a handler may still commit in the request it is serving.
InFlight(q) ==
    IF pc[q] \in {"ci_create", "ci_commit"} THEN 1
    ELSE IF pc[q] = "rp_loop" THEN Len(frame[q].devices)
    ELSE 0

RECURSIVE Sum(_, _)
Sum(f, S) ==
    IF S = {} THEN 0
    ELSE LET x == CHOOSE y \in S : TRUE IN f[x] + Sum(f, S \ {x})

\* The rows stored or on their way to the store.
Rows == Len(logs) + Sum([q \in Procs |-> InFlight(q)], Procs)

\* The response is sent and the request's context is torn down.
teardown(p) ==
    /\ pc[p] = "done"
    /\ pc' = [pc EXCEPT ![p] = "idle"]
    /\ frame' = [frame EXCEPT ![p] = Frame0]
    /\ resp' = [resp EXCEPT ![p] = NoResp]
    /\ appended' = [appended EXCEPT ![p] = <<>>]
    /\ UNCHANGED <<clock, sessions, subnets, logs>>

\* ----------------------------------------------------------------- check_in
\* A handler is modelled in steps, one for each stretch of code between two
\* reads of the clock or up to the commit, so that time can pass (Tick)
\* between the window gate, the row's timestamp, the commit and the status
\* evaluation, as it can in the code.
\* Faulty variant: the start and the end themselves are outside the window.
WindowGateMut(now, s) ==
    IF NotStartedMut(now, s) THEN Some(NotStartedError(s))
    ELSE IF EndedMut(now, s) THEN Some(EndedError(s))
    ELSE None

\* Faulty variant: a session that has not started is let through.
WindowGateNoStart(now, s) ==
    IF Ended(now, s) THEN Some(EndedError(s)) ELSE None

\* The session-window gate shared by check_in (146-156) and router_push
\* (212-222): the error, if any.
WindowGate(now, s) ==
    IF NotStarted(now, s) THEN Some(NotStartedError(s))
    ELSE IF Ended(now, s) THEN Some(EndedError(s))
    ELSE None

\* Faulty variant: the subnet gate left out.
check_in_gates_mut(mac, session_id, client_ip, now) ==
    IF mac = <<>> \/ ~TruthyInt(session_id)
    THEN Some(Error(400, "missing_fields"))
    ELSE IF ~IsSome(StudentByMac(mac))
    THEN Some(Error(404, "unknown_device"))
    ELSE IF ~IsSome(SessionGet(session_id))
    THEN Some(Error(404, "session_not_found"))
    ELSE WindowGate(now, Get(SessionGet(session_id)))

\* Faulty variant: the session is looked up before the device.
check_in_gates_swap(mac, session_id, client_ip, now) ==
    IF mac = <<>> \/ ~TruthyInt(session_id)
    THEN Some(Error(400, "missing_fields"))
    ELSE IF ~ip_in_approved_subnet(client_ip)
    THEN Some(Error(403, "You must be on classroom Wi-Fi"))
    ELSE IF ~IsSome(SessionGet(session_id))
    THEN Some(Error(404, "session_not_found"))
    ELSE IF ~IsSome(StudentByMac(mac))
    THEN Some(Error(404, "unknown_device"))
    ELSE WindowGate(now, Get(SessionGet(session_id)))

\* lines 115-156: the first gate that fails, as the error it returns.
check_in_gates(mac, session_id, client_ip, now) ==
    IF mac = <<>> \/ ~TruthyInt(session_id)
    THEN Some(Error(400, "missing_fields"))
    ELSE IF ~ip_in_approved_subnet(client_ip)
    THEN Some(Error(403, "You must be on classroom Wi-Fi"))
    ELSE IF ~IsSome(StudentByMac(mac))
    THEN Some(Error(404, "unknown_device"))
    ELSE IF ~IsSome(SessionGet(session_id))
    THEN Some(Error(404, "session_not_found"))
    ELSE WindowGate(now, Get(SessionGet(session_id)))

\* lines 106-156: the request is read and passes the gates or is refused.
\* mac_in, device_ip and remote_addr are optional strings, sid_in an optional
\* integer.
check_in(p, mac_in, sid_in, device_ip, remote_addr) ==
    LET mac == upper(IF TruthyStr(mac_in) THEN Get(mac_in) ELSE <<>>)
        present == mac # <<>> /\ TruthyInt(sid_in)
        client_ip == PyOr(device_ip, remote_addr)
        gate == check_in_gates(mac, sid_in, client_ip, clock)
        \* line 144 is reached when none of the gates before it fails
        at_window == ~IsSome(gate) \/ IsSome(Get(gate).boundary)
        f == [Frame0 EXCEPT !.op = "check_in", !.mac = mac,
                            !.session_id = sid_in,
                            !.client_ip = IF present THEN client_ip ELSE None,
                            !.now = IF at_window THEN Some(clock) ELSE None]
    IN  /\ Free(p)
        \* the store is kept to MaxLogs rows
        /\ IsSome(gate) \/ Rows < MaxLogs
        /\ IF IsSome(gate)
           THEN Return(p, f, Get(gate))
           ELSE Goto(p, "ci_create",
                     [f EXCEPT !.student = Some(Get(StudentByMac(mac)).id)])
        /\ appended' = [appended EXCEPT ![p] = <<>>]
        /\ UNCHANGED <<clock, sessions, subnets, logs>>

\* lines 159-165: the row is built, its timestamp a fresh clock read.
check_in_create(p) ==
    /\ pc[p] = "ci_create"
    /\ Goto(p, "ci_commit",
            [frame[p] EXCEPT !.log =
                Some(AttendanceLog(Get(frame[p].session_id),
                                   Get(frame[p].student), frame[p].mac, clock))])
    /\ UNCHANGED <<clock, sessions, subnets, logs, appended>>

\* Faulty variant: no except branch.
check_in_except_mut == Fault

\* lines 174-176: what the except branch returns.
check_in_except == Error(500, "db_commit_failed")

\* lines 170-176: add and commit; ok is whether the store takes the write.
check_in_commit(p, ok) ==
    /\ pc[p] = "ci_commit"
    /\ IF ok
       THEN /\ logs' = db_commit(<<Get(frame[p].log)>>)
            /\ Goto(p, "ci_status", frame[p])
       ELSE /\ logs' = db_commit_raises(<<Get(frame[p].log)>>)
            /\ Return(p, [frame[p] EXCEPT !.commit_raised = TRUE], check_in_except)
    /\ appended' = [appended EXCEPT
                      ![p] = @ \o SubSeq(logs', Len(logs) + 1, Len(logs'))]
    /\ UNCHANGED <<clock, sessions, subnets>>

\* The body of a response that carries an eligibility status.
StatusResp(student, status) ==
    [NoResp EXCEPT !.code = 200, !.student = Some(student.name),
                   !.status = Some(status)]

\* lines 181-190: the status after the heartbeat, and the success response.
check_in_status(p) ==
    /\ pc[p] = "ci_status"
    /\ LET student == CHOOSE s \in Students : s.id = Get(frame[p].student)
           status == is_student_checked_in(student.id, frame[p].session_id, clock)
       IN  Return(p,
                  [frame[p] EXCEPT !.eval_student = Some(student.id),
                                   !.eval_session = frame[p].session_id,
                                   !.eval_now = Some(clock),
                                   !.eval_rows = Len(logs)],
                  [StatusResp(student, status) EXCEPT
                      !.message = "check_in_recorded"])
    /\ UNCHANGED <<clock, sessions, subnets, logs, appended>>

\* -------------------------------------------------------------- router_push
\* lines 198-222: the admission check, then the session and its window.
router_push_gates(authorized, session_id, now) ==
    IF ~authorized
    THEN Some(Error(401, "unauthorized"))
    ELSE IF ~IsSome(SessionGet(session_id))
    THEN Some(Error(404, "session_not_found"))
    ELSE WindowGate(now, Get(SessionGet(session_id)))

\* lines 197-224: authorized is what require_admin_key() answers, sid_in an
\* optional integer, devices a sequence of optional strings (each entry's mac).
router_push(p, authorized, sid_in, devices) ==
    LET gate == router_push_gates(authorized, sid_in, clock)
        \* line 210 is reached when the session exists
        at_window == ~IsSome(gate) \/ IsSome(Get(gate).boundary)
        f == IF authorized
             THEN [Frame0 EXCEPT !.op = "router_push", !.authorized = TRUE,
                                 !.session_id = sid_in,
                                 !.now = IF at_window THEN Some(clock) ELSE None]
             ELSE [Frame0 EXCEPT !.op = "router_push"]
    IN  /\ Free(p)
        \* the store is kept to MaxLogs rows
        /\ IsSome(gate) \/ Rows + Len(devices) <= MaxLogs
        /\ IF IsSome(gate)
           THEN Return(p, f, Get(gate))
           ELSE Goto(p, "rp_loop", [f EXCEPT !.devices = devices])
        /\ appended' = [appended EXCEPT ![p] = <<>>]
        /\ UNCHANGED <<clock, sessions, subnets, logs>>

\* Faulty variant: an entry that resolves to no student is counted all the same.
router_push_turn_mut(f, now) ==
    LET dev == f.devices[f.idx + 1]
        mac == upper(IF TruthyStr(dev) THEN Get(dev) ELSE <<>>)
        student == StudentByMac(mac)
    IN  IF ~IsSome(student)
        THEN [f EXCEPT !.idx = @ + 1, !.saved = @ + 1]
        ELSE [f EXCEPT
                !.idx = @ + 1,
                !.pending = Append(@,
                    AttendanceLog(Get(f.session_id), Get(student).id, mac, now)),
                !.saved = @ + 1]

\* lines 227-241: the locals after one turn of the loop, entered with locals f
\* when the clock reads now.
router_push_turn(f, now) ==
    LET dev == f.devices[f.idx + 1]
        mac == upper(IF TruthyStr(dev) THEN Get(dev) ELSE <<>>)
        student == StudentByMac(mac)
    IN  IF ~IsSome(student)
        THEN [f EXCEPT !.idx = @ + 1]
        ELSE [f EXCEPT
                !.idx = @ + 1,
                !.pending = Append(@,
                    AttendanceLog(Get(f.session_id), Get(student).id, mac, now)),
                !.saved = @ + 1]

\* lines 226-241: one turn of the loop over the devices.
router_push_device(p) ==
    /\ pc[p] = "rp_loop"
    /\ frame[p].idx < Len(frame[p].devices)
    /\ Goto(p, "rp_loop", router_push_turn(frame[p], clock))
    /\ UNCHANGED <<clock, sessions, subnets, logs, appended>>

\* line 243 raising: nothing catches it.
router_push_except == Fault

\* lines 243-248: the batch commit; ok is whether the store takes the write.
router_push_commit(p, ok) ==
    /\ pc[p] = "rp_loop"
    /\ frame[p].idx = Len(frame[p].devices)
    /\ IF ok
       THEN /\ logs' = db_commit(frame[p].pending)
            /\ Return(p, frame[p],
                      [NoResp EXCEPT !.code = 200,
                                     !.message = "router_data_ingested",
                                     !.count = Some(frame[p].saved)])
       ELSE /\ logs' = db_commit_raises(frame[p].pending)
            /\ Return(p, [frame[p] EXCEPT !.commit_raised = TRUE],
                      router_push_except)
    /\ appended' = [appended EXCEPT
                      ![p] = @ \o SubSeq(logs', Len(logs) + 1, Len(logs'))]
    /\ UNCHANGED <<clock, sessions, subnets>>

\* ------------------------------------------------------------- check_status
\* lines 255-282; mac_in is an optional string, sid_in an optional integer.
check_status(p, mac_in, sid_in) ==
    LET mac == upper(IF IsSome(mac_in) THEN Get(mac_in) ELSE <<>>)
        student == StudentByMac(mac)
        f == [Frame0 EXCEPT !.op = "check_status", !.mac = mac,
                            !.session_id = sid_in]
    IN  /\ Free(p)
        /\ IF mac = <<>> \/ ~TruthyInt(sid_in)
           THEN Return(p, f, Error(400, "missing_fields"))
           ELSE IF ~IsSome(student)
           THEN Return(p, f, Error(404, "unknown_device"))
           ELSE Return(p,
                  [f EXCEPT !.student = Some(Get(student).id),
                            !.eval_student = Some(Get(student).id),
                            !.eval_session = sid_in,
                            !.eval_now = Some(clock),
                            !.eval_rows = Len(logs)],
                  [StatusResp(Get(student),
                              is_student_checked_in(Get(student).id, sid_in, clock))
                     EXCEPT !.student_id = Some(Get(student).id),
                            !.session_id = sid_in])
        /\ appended' = [appended EXCEPT ![p] = <<>>]
        /\ UNCHANGED <<clock, sessions, subnets, logs>>

\* A direct call of is_student_checked_in(student_id, session_id).
evaluate(p, student_id, sid_in) ==
    /\ Free(p)
    /\ Return(p,
              [Frame0 EXCEPT !.op = "evaluate",
                             !.eval_student = Some(student_id),
                             !.eval_session = sid_in,
                             !.eval_now = Some(clock),
                             !.eval_rows = Len(logs)],
              [NoResp EXCEPT !.status =
                  Some(is_student_checked_in(student_id, sid_in, clock))])
    /\ appended' = [appended EXCEPT ![p] = <<>>]
    /\ UNCHANGED <<clock, sessions, subnets, logs>>

\* A direct call of ip_in_approved_subnet(client_ip).
subnet_check(p, client_ip) ==
    /\ Free(p)
    /\ Return(p,
              [Frame0 EXCEPT !.op = "ip_in_approved_subnet",
                             !.client_ip = client_ip],
              [NoResp EXCEPT !.trusted = Some(ip_in_approved_subnet(client_ip))])
    /\ appended' = [appended EXCEPT ![p] = <<>>]
    /\ UNCHANGED <<clock, sessions, subnets, logs>>

\* ------------------------------------------------------------- session_logs
\* Faulty variant: the rows of every session.
SessionRowsMut(session_id) == DOMAIN logs

\* The rows of a session, as positions in the table.
SessionRows(session_id) == {j \in DOMAIN logs : logs[j].session_id = session_id}

\* order_by(desc(timestamp)).all(): the orders the store may return the rows
\* in; rows of equal timestamp come in an order the store chooses.
DescOrders(rows) ==
    { f \in [1..Cardinality(rows) -> rows] :
        /\ \A i, j \in DOMAIN f : i # j => f[i] # f[j]
        /\ \A i, j \in DOMAIN f :
             i < j => logs[f[i]].timestamp >= logs[f[j]].timestamp }

\* lines 294-299
LogSummary(l) ==
    [student_id |-> l.student_id, mac |-> l.mac, status |-> l.status,
     timestamp |-> isoformat(l.timestamp)]

\* lines 288-301; session_id is the integer of the path.
session_logs(p, session_id) ==
    /\ Free(p)
    /\ \E f \in DescOrders(SessionRows(session_id)) :
         Return(p,
                [Frame0 EXCEPT !.op = "session_logs",
                               !.session_id = Some(session_id),
                               !.eval_rows = Len(logs)],
                [NoResp EXCEPT !.code = 200,
                               !.out = [i \in DOMAIN f |-> LogSummary(logs[f[i]])]])
    /\ appended' = [appended EXCEPT ![p] = <<>>]
    /\ UNCHANGED <<clock, sessions, subnets, logs>>

\* -------------------------------------------------------------------- clock
\* Time passes.
Tick ==
    /\ clock < MaxTime
    /\ clock' = clock + 1
    /\ UNCHANGED <<sessions, subnets, logs, pc, frame, resp, appended>>

\* ------------------------------------------------------------------- inputs
Seqs(S, n) == UNION {[1..k -> S] : k \in 0..n}

MacInputs ==
    {None, Some(<<"a", "1">>), Some(<<"B", "2">>), Some(<<"c", "3">>)}

SessionIdInputs == {None, Some(0), Some(1), Some(2), Some(3)}

DeviceIpInputs ==
    {None, Some(<<>>), Some(<<"1", "0", ".", "1">>), Some(<<"9", ".", "1">>)}

RemoteAddrInputs == {None, Some(<<"7", ".", "1">>), Some(<<"9", ".", "1">>)}

DeviceLists == Seqs(MacInputs \ {None}, MaxDevices)

\* Session rows (created outside this module's code): session 1 has an end,
\* session 2 has none; an end, when present, is after the start.
SessionTables ==
    { (1 :> [start_time |-> 1, end_time |-> Some(MaxTime - 1),
             heartbeat_minutes |-> h, grace_minutes |-> g])
      @@ (2 :> [start_time |-> 0, end_time |-> None,
                heartbeat_minutes |-> 0, grace_minutes |-> 1]) :
      h \in {1}, g \in {0} }

\* ------------------------------------------------------------ specification
Init ==
    /\ clock = 0
    /\ sessions \in SessionTables
    /\ subnets = ApprovedSubnets
    /\ logs = <<>>
    /\ pc = [p \in Procs |-> "idle"]
    /\ frame = [p \in Procs |-> Frame0]
    /\ resp = [p \in Procs |-> NoResp]
    /\ appended = [p \in Procs |-> <<>>]

\* The requests are served one at a time, by handler 1.
Serial == {1}

Next ==
    \/ Tick
    \/ \E p \in Serial :
        \/ /\ Free(p)
           /\ \E m \in MacInputs, s \in SessionIdInputs,
                 d \in DeviceIpInputs, r \in RemoteAddrInputs :
                 check_in(p, m, s, d, r)
        \/ check_in_create(p)
        \/ \E ok \in BOOLEAN : check_in_commit(p, ok)
        \/ check_in_status(p)
        \/ /\ Free(p)
           /\ \E a \in BOOLEAN, s \in SessionIdInputs, ds \in DeviceLists :
                 router_push(p, a, s, ds)
        \/ router_push_device(p)
        \/ \E ok \in BOOLEAN : router_push_commit(p, ok)
        \/ /\ Free(p)
           /\ \E m \in MacInputs, s \in SessionIdInputs : check_status(p, m, s)
        \/ \E s \in 1..3 : session_logs(p, s)
        \/ teardown(p)

Spec == Init /\ [][Next]_vars

\* ------------------------------------------- is_student_checked_in on its own
\* The helper called directly, on any session row, any store content and any
\* clock value: times run over nine minutes, the store holds up to two rows of
\* session 1, and session 2 does not exist.
EvalTimes == 0..(9 * TicksPerMinute)

EvalSessionTables ==
    { (1 :> [start_time |-> st, end_time |-> en,
             heartbeat_minutes |-> h, grace_minutes |-> g]) :
      st \in {0, 2}, en \in {None, Some(9 * TicksPerMinute - 1)},
      h \in {0, 1, 5}, g \in {-1, 0, 2} }

EvalRows ==
    { AttendanceLog(1, st.id, st.mac_address, ts) :
        st \in Students, ts \in {0, 3} }

InitEval ==
    /\ clock \in EvalTimes
    /\ sessions \in EvalSessionTables
    /\ subnets = ApprovedSubnets
    /\ logs \in Seqs(EvalRows, 2)
    /\ pc = [p \in Procs |-> "idle"]
    /\ frame = [p \in Procs |-> Frame0]
    /\ resp = [p \in Procs |-> NoResp]
    /\ appended = [p \in Procs |-> <<>>]

NextEval ==
    \E p \in Serial :
        \/ \E st \in 1..2, s \in {Some(1), Some(2)} : evaluate(p, st, s)
        \/ teardown(p)

EvalSpec == InitEval /\ [][NextEval]_vars

\* ------------------------------------------------------ session_logs on its own
\* The listing called on a store filled in any order: up to MaxLogs + 1 rows of
\* either session and either student, stamped inside the sessions' windows, in
\* whatever order they were committed; all of them lie in the past.
ListedRows ==
    { AttendanceLog(s, st.id, st.mac_address, ts) :
        s \in 1..2, st \in Students, ts \in 1..2 }

InitLogs ==
    /\ clock = MaxTime
    /\ sessions \in SessionTables
    /\ subnets = ApprovedSubnets
    /\ logs \in Seqs(ListedRows, MaxLogs + 1)
    /\ pc = [p \in Procs |-> "idle"]
    /\ frame = [p \in Procs |-> Frame0]
    /\ resp = [p \in Procs |-> NoResp]
    /\ appended = [p \in Procs |-> <<>>]

NextLogs ==
    \E p \in Serial :
        \/ \E s \in 1..3 : session_logs(p, s)
        \/ teardown(p)

LogsSpec == InitLogs /\ [][NextLogs]_vars

\* ------------------------------------------------------ the subnet gate alone
\* The classroom-network test on any table of approved prefixes: none at all,
\* one prefix, the two of ApprovedSubnets (one stored with blanks around it),
\* or a prefix that is nothing but a blank; called directly on any address,
\* and through check_in with any supplied and any peer address.
SubnetTables ==
    { {}, {[prefix |-> <<"1", "0", ".">>]}, ApprovedSubnets,
      {[prefix |-> <<" ">>]} }

AddrInputs ==
    DeviceIpInputs \cup RemoteAddrInputs
        \cup {Some(<<"1", "0">>), Some(<<" ", "7", ".", " ", "1">>)}

InitGate ==
    /\ clock \in 0..1
    /\ sessions \in SessionTables
    /\ subnets \in SubnetTables
    /\ logs = <<>>
    /\ pc = [p \in Procs |-> "idle"]
    /\ frame = [p \in Procs |-> Frame0]
    /\ resp = [p \in Procs |-> NoResp]
    /\ appended = [p \in Procs |-> <<>>]

NextGate ==
    \E p \in Serial :
        \/ \E a \in AddrInputs : subnet_check(p, a)
        \/ /\ Free(p)
           /\ \E m \in MacInputs, s \in SessionIdInputs,
                 d \in DeviceIpInputs, r \in RemoteAddrInputs :
                 check_in(p, m, s, d, r)
        \/ check_in_create(p)
        \/ \E ok \in BOOLEAN : check_in_commit(p, ok)
        \/ check_in_status(p)
        \/ teardown(p)

GateSpec == InitGate /\ [][NextGate]_vars

\* ------------------------------------------------------- two handlers at once
\* Two requests served at the same time, their steps interleaved in any order:
\* heartbeats of either student for the open-ended session, sent from the
\* classroom network or pushed by the router, status queries for them and
\* listings of the session.  The store takes every write.
ConcMacs == {Some(<<"a", "1">>), Some(<<"B", "2">>)}

ConcDeviceLists == Seqs(ConcMacs, MaxDevices) \ {<<>>}

\* Time passes while two requests are being served.
ConcTick == clock < ConcMaxTime /\ Tick

NextConc ==
    \/ ConcTick
    \/ \E p \in Procs :
        \/ \E m \in ConcMacs :
              check_in(p, m, Some(2), Some(<<"1", "0", ".", "1">>), None)
        \/ check_in_create(p)
        \/ check_in_commit(p, TRUE)
        \/ check_in_status(p)
        \/ \E ds \in ConcDeviceLists : router_push(p, TRUE, Some(2), ds)
        \/ router_push_device(p)
        \/ router_push_commit(p, TRUE)
        \/ \E m \in ConcMacs : check_status(p, m, Some(2))
        \/ session_logs(p, 2)
        \/ teardown(p)

ConcSpec == Init /\ [][NextConc]_vars

\* ------------------------------------------------------------------- claims
\* A handler holds the result of a call of is_student_checked_in.
Evaluated(p) == pc[p] = "done" /\ IsSome(resp[p].status)
Status(p) == Get(resp[p].status)
EvalNow(p) == Get(frame[p].eval_now)

\* The session the call was about exists, and is open at the call's `now`.
EvalSessionExists(p) ==
    /\ IsSome(frame[p].eval_session)
    /\ Get(frame[p].eval_session) \in DOMAIN sessions
EvalSession(p) == sessions[Get(frame[p].eval_session)]
EvalOpen(p) ==
    /\ EvalSessionExists(p)
    /\ EvalNow(p) >= EvalSession(p).start_time
    /\ \/ EvalSession(p).end_time = None
       \/ EvalNow(p) <= Get(EvalSession(p).end_time)

\* The heartbeat timestamps stored for the call's (session, student).
EvalTimestamps(p) ==
    { logs[j].timestamp : j \in
        { i \in DOMAIN logs :
            /\ logs[i].session_id = Get(frame[p].eval_session)
            /\ logs[i].student_id = Get(frame[p].eval_student) } }

\* The session's window and the time since the last heartbeat, in ticks.
EvalWindow(p) ==
    (EvalSession(p).heartbeat_minutes + EvalSession(p).grace_minutes)
        * TicksPerMinute
EvalElapsed(p) == EvalNow(p) - Max(EvalTimestamps(p))

Reasons ==
    {"session_not_found", "session_not_started", "session_ended",
     "no_heartbeat_recorded", "heartbeat_expired", "active"}

\* C1: whatever the student, the session, the clock and the store hold, the
\* reason is_student_checked_in returns is one of the six reasons, and
\* checked_in is true exactly when the reason is active.
C1_ReasonClosed ==
    \A p \in Procs : Evaluated(p) =>
        /\ Status(p).reason \in Reasons
        /\ Status(p).checked_in <=> Status(p).reason = "active"

\* C1 witness: an evaluation returned active with checked_in true.
C1_Witness ==
    \E p \in Procs :
        /\ Evaluated(p)
        /\ frame[p].op = "evaluate"
        /\ Status(p).reason = "active"
        /\ Status(p).checked_in

\* C2: the reasons come in a fixed priority order: an unknown session is
\* session_not_found; a session that has not started is session_not_started
\* and one past its end is session_ended, whatever heartbeats are stored; an
\* open session with no heartbeat is no_heartbeat_recorded; only an open
\* session with a heartbeat is active or heartbeat_expired.
C2_PriorityOrder ==
    \A p \in Procs : Evaluated(p) =>
        LET r == Status(p).reason IN
        IF ~EvalSessionExists(p) THEN r = "session_not_found"
        ELSE IF EvalNow(p) < EvalSession(p).start_time
        THEN r = "session_not_started"
        ELSE IF /\ EvalSession(p).end_time # None
                /\ EvalNow(p) > Get(EvalSession(p).end_time)
        THEN r = "session_ended"
        ELSE IF EvalTimestamps(p) = {} THEN r = "no_heartbeat_recorded"
        ELSE r \in {"active", "heartbeat_expired"}

\* C2 witness: a session that has not started, with a heartbeat stored for the
\* student and inside its window, is reported session_not_started.
C2_Witness ==
    \E p \in Procs :
        /\ Evaluated(p)
        /\ EvalSessionExists(p)
        /\ EvalNow(p) < EvalSession(p).start_time
        /\ EvalTimestamps(p) # {}
        /\ EvalElapsed(p) >= 0
        /\ EvalElapsed(p) <= EvalWindow(p)
        /\ Status(p).reason = "session_not_started"

\* C3: in an open session whose student's last heartbeat is at T, an
\* evaluation at exactly T + window is active with time_until_expiry 0, and
\* one at any later time is heartbeat_expired with checked_in false.
C3_InclusiveBoundary ==
    \A p \in Procs : (Evaluated(p) /\ EvalOpen(p) /\ EvalTimestamps(p) # {}) =>
        /\ EvalElapsed(p) = EvalWindow(p) =>
              /\ Status(p).reason = "active"
              /\ Status(p).checked_in
              /\ Status(p).time_until_expiry = Some(0)
        /\ EvalElapsed(p) > EvalWindow(p) =>
              /\ Status(p).reason = "heartbeat_expired"
              /\ ~Status(p).checked_in

\* C3 witness: an evaluation exactly one positive window after the last
\* heartbeat, in an open session.
C3_Witness ==
    \E p \in Procs :
        /\ Evaluated(p)
        /\ EvalOpen(p)
        /\ EvalTimestamps(p) # {}
        /\ EvalWindow(p) > 0
        /\ EvalElapsed(p) = EvalWindow(p)
        /\ Status(p).time_until_expiry = Some(0)

\* C4: time_until_expiry is present exactly when the reason is active; it is
\* then floor(window - elapsed_minutes) and not negative.  With
\* heartbeat_minutes 5 and grace_minutes 2, six minutes after the last
\* heartbeat it is 1, and eight minutes after the result is heartbeat_expired
\* with no time_until_expiry.
C4_TimeUntilExpiry ==
    \A p \in Procs : Evaluated(p) =>
        /\ IsSome(Status(p).time_until_expiry) <=> Status(p).reason = "active"
        /\ Status(p).reason = "active" =>
              /\ Get(Status(p).time_until_expiry) =
                    (EvalWindow(p) - EvalElapsed(p)) \div TicksPerMinute
              /\ Get(Status(p).time_until_expiry) >= 0
        /\ ( /\ EvalOpen(p)
             /\ EvalTimestamps(p) # {}
             /\ EvalSession(p).heartbeat_minutes = 5
             /\ EvalSession(p).grace_minutes = 2 ) =>
              /\ EvalElapsed(p) = 6 * TicksPerMinute =>
                    Status(p).time_until_expiry = Some(1)
              /\ EvalElapsed(p) = 8 * TicksPerMinute =>
                    /\ Status(p).reason = "heartbeat_expired"
                    /\ Status(p).time_until_expiry = None

\* C4 witness: the example, six minutes after the heartbeat.
C4_Witness ==
    \E p \in Procs :
        /\ Evaluated(p)
        /\ EvalOpen(p)
        /\ EvalTimestamps(p) # {}
        /\ EvalSession(p).heartbeat_minutes = 5
        /\ EvalSession(p).grace_minutes = 2
        /\ EvalElapsed(p) = 6 * TicksPerMinute
        /\ Status(p).time_until_expiry = Some(1)

\* A handler has returned from a call of handler op.
Returned(p, op) == pc[p] = "done" /\ frame[p].op = op

\* The address is prefixed by an approved prefix (blanks around a stored
\* prefix do not count); no address at all is prefixed by nothing.
Approved(addr) ==
    /\ addr # None
    /\ Get(addr) # <<>>
    /\ \E row \in subnets :
         LET pre == strip(row.prefix) IN
         /\ Len(pre) <= Len(Get(addr))
         /\ \A i \in 1..Len(pre) : Get(addr)[i] = pre[i]

\* The student whose stored address is the (uppercased) address mac, if any.
Resolved(mac) == {st \in Students : st.mac_address = mac}

CheckInErrors ==
    { <<400, "missing_fields">>, <<403, "You must be on classroom Wi-Fi">>,
      <<404, "unknown_device">>, <<404, "session_not_found">>,
      <<400, "Session has not started yet">>, <<400, "Session has ended">>,
      <<500, "db_commit_failed">> }

\* C6: a check_in call that returns success has committed exactly one row, of
\* the student its device address resolves to and of the session it named,
\* and the row is in the store; a call that returns an error, whichever, has
\* committed nothing.
C6_OneRowPerSuccess ==
    \A p \in Procs : Returned(p, "check_in") =>
        IF resp[p].code = 200
        THEN /\ Len(appended[p]) = 1
             /\ appended[p][1].session_id = Get(frame[p].session_id)
             /\ appended[p][1].student_id \in
                    {st.id : st \in Resolved(frame[p].mac)}
             /\ \E i \in DOMAIN logs : logs[i] = appended[p][1]
        ELSE /\ <<resp[p].code, resp[p].error>> \in CheckInErrors
             /\ appended[p] = <<>>

\* C6 witness: a successful check_in into a store that already held a row.
C6_Witness ==
    \E p \in Procs :
        /\ Returned(p, "check_in")
        /\ resp[p].code = 200
        /\ Len(logs) = 2
        /\ Len(appended[p]) = 1

\* The device entries that resolve to a student, in the order of the list.
ResolvingEntries(devices) ==
    SelectSeq(devices,
              LAMBDA dev : dev # None /\ Resolved(upper(Get(dev))) # {})

\* C7: an authorized router_push for an open session that commits has
\* committed one row per device entry that resolves to a student, in the order
\* of the list and for the session named, none for the other entries, and
\* returns their number as count.
C7_CountResolved ==
    \A p \in Procs : (Returned(p, "router_push") /\ resp[p].code = 200) =>
        LET hits == ResolvingEntries(frame[p].devices) IN
        /\ resp[p].count = Some(Len(hits))
        /\ Len(appended[p]) = Len(hits)
        /\ \A k \in 1..Len(hits) :
              /\ appended[p][k].mac = upper(Get(hits[k]))
              /\ appended[p][k].student_id \in
                    {st.id : st \in Resolved(upper(Get(hits[k])))}
              /\ appended[p][k].session_id = Get(frame[p].session_id)

\* C7 witness: two entries, the first of which resolves to no student.
C7_Witness ==
    \E p \in Procs :
        /\ Returned(p, "router_push")
        /\ resp[p].code = 200
        /\ Len(frame[p].devices) = 2
        /\ Resolved(upper(Get(frame[p].devices[1]))) = {}
        /\ resp[p].count = Some(1)
        /\ Len(appended[p]) = 1

\* C8: a router_push call that does not return success has committed no row.
\* A caller who is not authorized is answered 401 before the request is even
\* read; an unknown session and a session outside its window are refused
\* before any device is processed; a commit that raises leaves none of the
\* batch in the store.
C8_NoRowOnError ==
    \A p \in Procs :
        /\ (frame[p].op = "router_push" /\ ~frame[p].authorized) =>
              /\ pc[p] = "done"
              /\ resp[p].code = 401
              /\ resp[p].error = "unauthorized"
              /\ frame[p] = [Frame0 EXCEPT !.op = "router_push"]
        /\ (Returned(p, "router_push") /\ resp[p].code # 200) =>
              /\ appended[p] = <<>>
              /\ ~frame[p].commit_raised =>
                    /\ frame[p].idx = 0
                    /\ frame[p].pending = <<>>
                    /\ resp[p].code \in {401, 404, 400}

\* C8 witness: the commit of a batch of two rows raised.
C8_Witness ==
    \E p \in Procs :
        /\ Returned(p, "router_push")
        /\ frame[p].commit_raised
        /\ Len(frame[p].pending) = 2
        /\ appended[p] = <<>>
        /\ logs = <<>>

\* C9: when the store rejects check_in's write, the call returns the error
\* db_commit_failed with status 500, and no exception leaves the handler.
C9_CommitFailureCaught ==
    \A p \in Procs : (frame[p].op = "check_in" /\ frame[p].commit_raised) =>
        /\ pc[p] = "done"
        /\ resp[p].code = 500
        /\ resp[p].error = "db_commit_failed"
        /\ ~resp[p].fault

\* C9 witness: a check_in whose commit raised has returned.
C9_Witness ==
    \E p \in Procs :
        /\ Returned(p, "check_in")
        /\ frame[p].commit_raised
        /\ frame[p].log # None
        /\ resp[p].code = 500

RouterPushErrors ==
    { <<401, "unauthorized">>, <<404, "session_not_found">>,
      <<400, "Session has not started yet">>, <<400, "Session has ended">> }

\* C10: every outcome of router_push is success or a structured error: no
\* exception leaves the handler, and when the store rejects the batch commit
\* the call returns an error code of its own.
C10_StructuredOutcome ==
    \A p \in Procs : Returned(p, "router_push") =>
        /\ ~resp[p].fault
        /\ \/ resp[p].code = 200 /\ resp[p].message = "router_data_ingested"
           \/ <<resp[p].code, resp[p].error>> \in RouterPushErrors
           \/ frame[p].commit_raised /\ resp[p].error # ""

\* C11: check_in tries its gates in the order missing fields, classroom
\* network, known device, existing session, session started, session not
\* ended, and the error it returns is that of the first gate that fails,
\* however many of the later ones would fail too.
C11_GateOrder ==
    \A p \in Procs : Returned(p, "check_in") =>
        LET f == frame[p]
            r == resp[p]
            sid == f.session_id
            s == sessions[Get(sid)]
        IN  IF f.mac = <<>> \/ sid = None \/ sid = Some(0)
            THEN r.code = 400 /\ r.error = "missing_fields"
            ELSE IF ~Approved(f.client_ip)
            THEN r.code = 403 /\ r.error = "You must be on classroom Wi-Fi"
            ELSE IF Resolved(f.mac) = {}
            THEN r.code = 404 /\ r.error = "unknown_device"
            ELSE IF Get(sid) \notin DOMAIN sessions
            THEN r.code = 404 /\ r.error = "session_not_found"
            ELSE IF Get(f.now) < s.start_time
            THEN r.code = 400 /\ r.error = "Session has not started yet"
            ELSE IF s.end_time # None /\ Get(f.now) > Get(s.end_time)
            THEN r.code = 400 /\ r.error = "Session has ended"
            ELSE r.error \notin
                   {"missing_fields", "You must be on classroom Wi-Fi",
                    "unknown_device", "session_not_found",
                    "Session has not started yet", "Session has ended"}

\* C11 witness: a request from the classroom network whose device is unknown
\* and whose session does not exist is answered unknown_device.
C11_Witness ==
    \E p \in Procs :
        /\ Returned(p, "check_in")
        /\ Approved(frame[p].client_ip)
        /\ Resolved(frame[p].mac) = {}
        /\ IsSome(frame[p].session_id)
        /\ Get(frame[p].session_id) \notin DOMAIN sessions
        /\ resp[p].error = "unknown_device"

\* The rows a read saw: the store as it was when the handler read it.
Seen(p) == SubSeq(logs, 1, frame[p].eval_rows)

\* How many elements of seq satisfy Test.
Count(seq, Test(_)) == Cardinality({i \in DOMAIN seq : Test(seq[i])})

\* The listing entry x is what session_logs shows of row l.
Shows(x, l) ==
    /\ x.student_id = l.student_id
    /\ x.mac = l.mac
    /\ x.status = l.status
    /\ x.timestamp.iso = l.timestamp

\* The listing a handler returned holds the rows of the session asked for,
\* each once, and nothing else.
ListsSession(p) ==
    LET out == resp[p].out
        sid == Get(frame[p].session_id)
        mine == SelectSeq(Seen(p), LAMBDA l : l.session_id = sid)
    IN  /\ Len(out) = Len(mine)
        /\ \A k \in DOMAIN out :
              Count(out, LAMBDA x : x = out[k])
                = Count(mine, LAMBDA l : Shows(out[k], l))
        /\ \A k \in DOMAIN mine : \E j \in DOMAIN out : Shows(out[j], mine[k])

\* C12: session_logs returns all the rows of the session asked for and only
\* those, and no entry of the listing is older than the entry after it,
\* whatever the order the rows were committed in; rows of equal timestamp
\* follow one another in an order the store chooses.
C12_ListingDescending ==
    \A p \in Procs : Returned(p, "session_logs") =>
        /\ ListsSession(p)
        /\ \A i \in 1..(Len(resp[p].out) - 1) :
              resp[p].out[i].timestamp.iso >= resp[p].out[i + 1].timestamp.iso

\* C12 witness: two rows of the session committed oldest first, and a row of
\* the other session between them, are listed newest first.
C12_Witness ==
    \E p \in Procs :
        /\ Returned(p, "session_logs")
        /\ Len(logs) = 3
        /\ logs[1].session_id = Get(frame[p].session_id)
        /\ logs[2].session_id # Get(frame[p].session_id)
        /\ logs[3].session_id = Get(frame[p].session_id)
        /\ logs[1].timestamp < logs[3].timestamp
        /\ Len(resp[p].out) = 2
        /\ Shows(resp[p].out[1], logs[3])
        /\ Shows(resp[p].out[2], logs[1])

\* C12 as stated: every entry of the listing is strictly newer than the entry
\* after it.
C12_StrictlyDescending ==
    \A p \in Procs : Returned(p, "session_logs") =>
        /\ ListsSession(p)
        /\ \A i \in 1..(Len(resp[p].out) - 1) :
              resp[p].out[i].timestamp.iso > resp[p].out[i + 1].timestamp.iso

\* a is a prefix of b.
IsPrefix(a, b) == Len(a) <= Len(b) /\ SubSeq(b, 1, Len(a)) = a

\* In this step handler p runs a read: is_student_checked_in called directly
\* or at the end of check_in, check_status, or session_logs.
ReadStep(p) ==
    \/ /\ pc[p] = "idle"
       /\ pc'[p] = "done"
       /\ frame'[p].op \in {"evaluate", "check_status", "session_logs"}
    \/ pc[p] = "ci_status" /\ pc'[p] = "done"

\* Every step leaves the stored rows where they are and as they are, and the
\* sessions and the approved prefixes untouched; a read adds no row either.
\* (The students are a fixed table of the model: no step can change them.)
C13_Frame ==
    /\ IsPrefix(logs, logs')
    /\ sessions' = sessions
    /\ subnets' = subnets
    /\ \A p \in Procs : ReadStep(p) => logs' = logs

\* Two handlers that evaluated the same student and session at the same time
\* on the same store hold the same result.
C13_SameResult ==
    \A p, q \in Procs :
        ( /\ Evaluated(p) /\ Evaluated(q)
          /\ frame[p].eval_student = frame[q].eval_student
          /\ frame[p].eval_session = frame[q].eval_session
          /\ frame[p].eval_now = frame[q].eval_now
          /\ frame[p].eval_rows = frame[q].eval_rows ) =>
            Status(p) = Status(q)

\* C13: the log only grows: no operation changes or removes a stored row;
\* the reads (is_student_checked_in, check_status, session_logs) leave the
\* store, the sessions and the approved prefixes as they were; and two
\* evaluations of the same student and session at the same time with no
\* write between them give the same result.
C13_AppendOnlyReads == []C13_SameResult /\ [][C13_Frame]_vars

\* C13 witness: while one handler holds the status its check_in ended with,
\* the other has asked for the status of the same student and session at the
\* same time, on the same rows.
C13_Witness ==
    /\ logs # <<>>
    /\ Evaluated(1) /\ Evaluated(2)
    /\ frame[1].op = "check_in"
    /\ frame[2].op = "check_status"
    /\ frame[1].eval_student = frame[2].eval_student
    /\ frame[1].eval_session = frame[2].eval_session
    /\ frame[1].eval_now = frame[2].eval_now
    /\ frame[1].eval_rows = Len(logs)
    /\ frame[2].eval_rows = Len(logs)
    /\ Status(1).reason = "active"

\* In this step handler p takes a check_in request, which carries mac m and
\* session id s.
TakesCheckIn(p) == pc[p] = "idle" /\ frame'[p].op = "check_in"
Carries(p, m, s) ==
    /\ frame'[p].mac = upper(IF TruthyStr(m) THEN Get(m) ELSE <<>>)
    /\ frame'[p].session_id = s

\* Whatever a check_in request carries, the step it takes is the step it
\* would take with any other peer address when it supplies a (non-empty)
\* device_ip, and the step it would take with no device_ip at all when the
\* device_ip it supplies is empty.
C14_Step ==
    \A p \in Procs : TakesCheckIn(p) =>
        \A m \in MacInputs, s \in SessionIdInputs,
           d \in DeviceIpInputs, r \in RemoteAddrInputs :
            (Carries(p, m, s) /\ check_in(p, m, s, d, r)) =>
                IF TruthyStr(d)
                THEN \A r2 \in RemoteAddrInputs : check_in(p, m, s, d, r2)
                ELSE check_in(p, m, s, None, r)

\* C14: the outcome of check_in's subnet gate, and of the whole request,
\* depends on the device_ip the request supplies and not on the peer address
\* of the connection whenever one is supplied: two requests that differ in
\* their peer address only are answered alike.  The peer address counts only
\* when the request supplies no device_ip (none, or an empty one).
C14_SuppliedAddressDecides == [][C14_Step]_vars

\* C14 witness: a request got through the gates on an address that only a
\* supplied device_ip can carry (no peer address of the model is in that
\* prefix), and was recorded.
C14_Witness ==
    \E p \in Procs :
        /\ Returned(p, "check_in")
        /\ frame[p].client_ip = Some(<<"1", "0", ".", "1">>)
        /\ \A r \in RemoteAddrInputs : ~Approved(r)
        /\ resp[p].code = 200
        /\ Len(appended[p]) = 1

\* pre is a prefix of the string s, character by character.
LiteralPrefix(pre, s) ==
    /\ Len(pre) <= Len(s)
    /\ \A i \in 1..Len(pre) : s[i] = pre[i]

\* C15: ip_in_approved_subnet(address) is true exactly when the address is a
\* non-empty string and at least one stored prefix, with the blanks around it
\* taken off, is a prefix of it; it is false for no address and for the empty
\* address, and false for every address when no prefix is stored.
C15_TrimmedPrefix ==
    \A p \in Procs : Returned(p, "ip_in_approved_subnet") =>
        LET addr == frame[p].client_ip
            trusted == Get(resp[p].trusted)
        IN  /\ trusted <=> Approved(addr)
            /\ (addr = None \/ addr = Some(<<>>)) => ~trusted
            /\ subnets = {} => ~trusted

\* C15 witness: an address inside a prefix that is stored with blanks around
\* it is approved.
C15_Witness ==
    \E p \in Procs :
        /\ Returned(p, "ip_in_approved_subnet")
        /\ frame[p].client_ip = Some(<<"7", ".", "1">>)
        /\ \A row \in subnets : ~LiteralPrefix(row.prefix, <<"7", ".", "1">>)
        /\ resp[p].trusted = Some(TRUE)

\* C15 as stated: the result is true exactly when a stored prefix, as it is
\* stored, is a prefix of the (non-empty) address.
C15_LiteralPrefix ==
    \A p \in Procs : Returned(p, "ip_in_approved_subnet") =>
        LET addr == frame[p].client_ip
            trusted == Get(resp[p].trusted)
        IN  /\ trusted <=>
                  /\ addr # None
                  /\ addr # Some(<<>>)
                  /\ \E row \in subnets : LiteralPrefix(row.prefix, Get(addr))
            /\ (addr = None \/ addr = Some(<<>>)) => ~trusted
            /\ subnets = {} => ~trusted

\* The handler returned from a check_in that succeeded.
CheckedIn(p) == Returned(p, "check_in") /\ resp[p].code = 200

\* The heartbeat timestamps of the evaluation's (session, student) among the
\* rows the evaluation saw.
SeenTimestamps(p) ==
    { Seen(p)[i].timestamp : i \in
        { j \in DOMAIN Seen(p) :
            /\ Seen(p)[j].session_id = Get(frame[p].eval_session)
            /\ Seen(p)[j].student_id = Get(frame[p].eval_student) } }

\* C16: when two check_in requests served at the same time have both
\* returned success, for the same student or for different ones, the row of
\* each is in the store, at a place of its own; and an evaluation that finds
\* heartbeats of its (session, student) reports the greatest of their
\* timestamps as last_heartbeat, whatever the order they were committed in.
C16_BothRecorded ==
    /\ \A p, q \in Procs : (p # q /\ CheckedIn(p) /\ CheckedIn(q)) =>
          \E i, j \in DOMAIN logs :
              /\ i # j
              /\ logs[i] = appended[p][1]
              /\ logs[j] = appended[q][1]
    /\ \A p \in Procs : (Evaluated(p) /\ EvalOpen(p)) =>
          IF SeenTimestamps(p) = {}
          THEN Status(p).reason = "no_heartbeat_recorded"
          ELSE Status(p).last_heartbeat
                 = Some(isoformat(Max(SeenTimestamps(p))))

\* C16 witness: two check_ins of the same student have both returned; the
\* row stamped later was committed first, and the handler that committed
\* last, whose own row is the older one, reports the other's timestamp.
C16_Witness ==
    \E p, q \in Procs :
        /\ p # q
        /\ CheckedIn(p) /\ CheckedIn(q)
        /\ Len(logs) = 2
        /\ logs[1] = appended[p][1]
        /\ logs[2] = appended[q][1]
        /\ logs[1].student_id = logs[2].student_id
        /\ logs[1].timestamp > logs[2].timestamp
        /\ frame[q].eval_rows = 2
        /\ Status(q).last_heartbeat = Some(isoformat(logs[1].timestamp))

\* C17: a row is stamped before it is committed: no stored row carries a
\* timestamp later than the clock, and the rows one request commits are in
\* the store in the order of their timestamps.  (Between two requests served
\* at the same time the order of the commits need not be the order of the
\* timestamps.)
C17_StampedBeforeVisible ==
    /\ \A i \in DOMAIN logs : logs[i].timestamp <= clock
    /\ \A p \in Procs : \A i, j \in DOMAIN appended[p] :
          i < j => appended[p][i].timestamp <= appended[p][j].timestamp

\* C17 witness: the row of a router_push is in the store, and behind it the
\* row of a check_in that was stamped before it and committed after it.
C17_Witness ==
    \E p, q \in Procs :
        /\ Returned(p, "router_push")
        /\ CheckedIn(q)
        /\ logs = appended[p] \o appended[q]
        /\ Len(logs) = 2
        /\ logs[2].timestamp < logs[1].timestamp
        /\ logs[1].timestamp <= clock

\* C17 as stated: a row that becomes visible later never carries an earlier
\* timestamp than a row that was visible before it.
C17_MonotoneVisibility ==
    \A i, j \in DOMAIN logs : i < j => logs[i].timestamp <= logs[j].timestamp

\* The handler serves a check_in or a router_push that got as far as the
\* session window, with the clock value Gated(p) read for it.
AtWindow(p) ==
    /\ frame[p].op \in {"check_in", "router_push"}
    /\ IsSome(frame[p].now)
Gated(p) == Get(frame[p].now)
GateSession(p) == sessions[Get(frame[p].session_id)]

\* What the handler answered about the window.
Refused(p, error) == pc[p] = "done" /\ resp[p].error = error

\* C18: check_in and router_push refuse a request as not started exactly
\* when is_student_checked_in, asked at the same time about the same session,
\* reports session_not_started, and as ended exactly when it reports
\* session_ended; a time equal to the start or to the end of the session is
\* inside the window for all three.
C18_SameWindow ==
    \A p \in Procs : AtWindow(p) =>
        \A st \in Students :
            LET verdict ==
                    is_student_checked_in(st.id, frame[p].session_id, Gated(p)).reason
                edge == \/ Gated(p) = GateSession(p).start_time
                        \/ Some(Gated(p)) = GateSession(p).end_time
            IN  /\ Refused(p, "Session has not started yet")
                      <=> verdict = "session_not_started"
                /\ Refused(p, "Session has ended") <=> verdict = "session_ended"
                /\ edge =>
                      /\ ~Refused(p, "Session has not started yet")
                      /\ ~Refused(p, "Session has ended")
                      /\ verdict \notin {"session_not_started", "session_ended"}

\* C18 witness: a check_in gated at the very end of its session was let
\* through, and its status, evaluated at that same time, is active.
C18_Witness ==
    \E p \in Procs :
        /\ CheckedIn(p)
        /\ Some(Gated(p)) = GateSession(p).end_time
        /\ frame[p].eval_now = frame[p].now
        /\ Status(p).reason = "active"

\* C19: no stored row is stamped before the start of its session, and the
\* row a check_in builds is stamped no earlier than the clock value its
\* window gate read.  (The timestamp is a later reading of the clock than
\* the gate's: it can lie after the end of the session.)
C19_NotBeforeStart ==
    /\ \A i \in DOMAIN logs :
          logs[i].timestamp >= sessions[logs[i].session_id].start_time
    /\ \A p \in Procs : (frame[p].op = "check_in" /\ IsSome(frame[p].log)) =>
          /\ Get(frame[p].log).timestamp >= Gated(p)
          /\ Gated(p) >= GateSession(p).start_time
    /\ \A p \in Procs : \A k \in DOMAIN frame[p].pending :
          /\ frame[p].pending[k].timestamp >= Gated(p)
          /\ Gated(p) >= GateSession(p).start_time

\* C19 witness: a check_in that passed the gate before the end of its
\* session has committed a row stamped after the end.
C19_Witness ==
    \E p \in Procs :
        /\ CheckedIn(p)
        /\ GateSession(p).end_time # None
        /\ Gated(p) <= Get(GateSession(p).end_time)
        /\ appended[p][1].timestamp > Get(GateSession(p).end_time)
        /\ \E i \in DOMAIN logs : logs[i] = appended[p][1]

\* C19 as stated: every stored row is stamped inside the window of its
\* session.
C19_InsideWindow ==
    \A i \in DOMAIN logs :
        LET s == sessions[logs[i].session_id] IN
        /\ logs[i].timestamp >= s.start_time
        /\ s.end_time # None => logs[i].timestamp <= Get(s.end_time)

\* The session of the evaluation allows a window that is not negative.
EvalWindowNonNegative(p) ==
    /\ EvalSession(p).heartbeat_minutes >= 0
    /\ EvalSession(p).grace_minutes >= 0

\* C20: a check_in that succeeds reports the status as it is at a reading
\* of the clock taken after the commit.  The heartbeat it reports is the
\* newest of the student's in the session, its own or a later one.  The
\* status is active when at that reading the session has not ended and the
\* window since that heartbeat has not run out, as is the case when no time
\* has passed since the gate; it is session_ended or heartbeat_expired, with
\* checked_in false, otherwise.
C20_StatusAfterCommit ==
    \A p \in Procs : (CheckedIn(p) /\ EvalWindowNonNegative(p)) =>
        LET own == appended[p][1].timestamp
            last == Max(SeenTimestamps(p))
            s == EvalSession(p)
            st == Status(p)
        IN  /\ own \in SeenTimestamps(p)
            /\ last >= own
            /\ IF s.end_time # None /\ EvalNow(p) > Get(s.end_time)
               THEN st.reason = "session_ended" /\ ~st.checked_in
               ELSE /\ st.last_heartbeat = Some(isoformat(last))
                    /\ IF EvalNow(p) - last <= EvalWindow(p)
                       THEN st.reason = "active" /\ st.checked_in
                       ELSE st.reason = "heartbeat_expired" /\ ~st.checked_in
            /\ EvalNow(p) = Gated(p) => st.reason = "active"

\* C20 witness: a check_in succeeded and reports its own heartbeat as
\* expired.
C20_Witness ==
    \E p \in Procs :
        /\ CheckedIn(p)
        /\ EvalWindowNonNegative(p)
        /\ ~Status(p).checked_in
        /\ Status(p).reason = "heartbeat_expired"
        /\ Status(p).last_heartbeat = Some(isoformat(appended[p][1].timestamp))

\* C20 as stated: every check_in that succeeds reports checked_in true and
\* active, with its own heartbeat or a later one of the same student and
\* session as last_heartbeat.
C20_ActiveAfterCheckIn ==
    \A p \in Procs : (CheckedIn(p) /\ EvalWindowNonNegative(p)) =>
        /\ Status(p).checked_in
        /\ Status(p).reason = "active"
        /\ \E t \in SeenTimestamps(p) :
              /\ t >= appended[p][1].timestamp
              /\ Status(p).last_heartbeat = Some(isoformat(t))

=============================================================================
